---- MODULE Spec2Model ----
(***************************************************************************)
(* LineFactory of locations_of_lines.py: the stored shape parameters, the  *)
(* two line sets, the construction, make_lines, and the slider callback    *)
(* update_data, with numpy's slicing computed as numpy computes it.        *)
(***************************************************************************)
EXTENDS Integers, Sequences, FiniteSets, TLC

VARIABLES
    pc,                    \* "start", "ready" (an object built by a caller),
                           \* "serving" (the script's object and widgets), "failed"
    line_length, line_gap, row_density, column_density,  \* the stored parameters
    horizontal_lines_xs, horizontal_lines_ys,            \* the horizontal line set
    vertical_lines_ys, vertical_lines_xs,                \* the vertical line set
    horizontal_origin, vertical_origin,  \* per segment, the row_col whose iteration
                                         \* of the loop appended it
    rng,                   \* np.random: the sequence followed and the draws made
    sliders,               \* the values of the four data sliders
    horizontal_source, vertical_source,  \* the data of the two ColumnDataSources
    call,                  \* the last call: arguments, outcome, what it assigned
    ncalls,                \* the make_lines and update_data calls made
    probe                  \* one application of a method to drawn inputs

lineVars == <<horizontal_lines_xs, horizontal_lines_ys, vertical_lines_ys,
              vertical_lines_xs, horizontal_origin, vertical_origin>>
storedVars == <<line_length, line_gap, row_density, column_density>>
uiVars == <<sliders, horizontal_source, vertical_source>>
vars == <<pc, storedVars, lineVars, rng, uiVars, call, ncalls, probe>>

\* An int-or-None argument: None (omitted) is <<>>, the int v is <<v>>.
None == <<>>
Some(v) == <<v>>
Optional(S) == {None} \cup {Some(v) : v \in S}

\* self.number_of_rows_cols
number_of_rows_cols == 1000

\* self.rows_cols = np.arange(self.number_of_rows_cols*3)
rows_cols == [i \in 1..(number_of_rows_cols * 3) |-> i - 1]

\* Mutant of Truthy: only None counts as omitted, so a supplied 0 overwrites.
TruthyOnlyNoneOmitted(arg) == arg # None

\* Python's truth value of an int-or-None argument (if line_length: ...).
Truthy(arg) == arg # None /\ arg[1] # 0

Min(a, b) == IF a < b THEN a ELSE b
Max(a, b) == IF a > b THEN a ELSE b

\* The first index (0-based) of a[start::step], as Python normalises it: a
\* negative start counts from the end, and the result is clamped to the array.
SliceStart(len, start, step) ==
    IF step > 0
    THEN IF start < 0 THEN Max(start + len, 0) ELSE Min(start, len)
    ELSE IF start < 0 THEN Max(start + len, -1) ELSE Min(start, len - 1)

\* The start of a[::step]: the first element for a positive step, the last
\* for a negative one.
DefaultStart(len, step) == IF step > 0 THEN 0 ELSE len - 1

\* The number of elements of a[start::step] (step # 0).
SliceLen(len, start, step) ==
    LET s == SliceStart(len, start, step)
    IN  IF step > 0
        THEN IF s >= len THEN 0 ELSE (len - s + step - 1) \div step
        ELSE IF s < 0 THEN 0 ELSE (s \div (0 - step)) + 1

\* a[start::step] for step # 0.
Slice(a, start, step) ==
    LET s == SliceStart(Len(a), start, step)
    IN  [k \in 1..SliceLen(Len(a), start, step) |-> a[s + (k - 1) * step + 1]]

\* Mutant of DropLast: the unmatched last start is kept.
DropLastKeepsAll(a) == a

\* An exception leaving a method.
Raise(kind) == [error |-> kind]
IsError(r) == "error" \in DOMAIN r

\* a[0:-1]
DropLast(a) == IF Len(a) = 0 THEN a ELSE SubSeq(a, 1, Len(a) - 1)


\* Mutant of GenerateRowColLines: a stride of 0 is taken as an empty range and
\* gives no segments instead of an exception.
GenerateRowColLinesEmptyStride(ll, lg, iter, start_jitter) ==
    IF ll + lg < 0
    THEN Raise("ValueError")
    ELSE IF ll + lg = 0
    THEN [lines1 |-> <<>>, lines2 |-> <<>>]
    ELSE LET c1full == Slice(rows_cols, start_jitter, lg + ll)
             coordinates2 == Slice(rows_cols, start_jitter + ll, lg + ll)
             coordinates1 == IF Len(c1full) > Len(coordinates2)
                               THEN SubSeq(c1full, 1, Len(c1full) - 1) ELSE c1full
         IN  IF Len(coordinates1) # Len(coordinates2)
             THEN Raise("ValueError")
             ELSE [lines1 |-> [k \in 1..Len(coordinates1) |->
                                 <<coordinates1[k], coordinates2[k]>>],
                   lines2 |-> [k \in 1..Len(coordinates1) |-> <<iter, iter>>]]

\* Mutant of GenerateRowColLines: lines2 is np.ones(lines1.shape), not
\* multiplied by iter.
GenerateRowColLinesOnes(ll, lg, iter, start_jitter) ==
    IF ll + lg <= 0
    THEN Raise("ValueError")
    ELSE LET c1full == Slice(rows_cols, start_jitter, lg + ll)
             coordinates2 == Slice(rows_cols, start_jitter + ll, lg + ll)
             coordinates1 == IF Len(c1full) > Len(coordinates2)
                               THEN SubSeq(c1full, 1, Len(c1full) - 1) ELSE c1full
         IN  IF Len(coordinates1) # Len(coordinates2)
             THEN Raise("ValueError")
             ELSE [lines1 |-> [k \in 1..Len(coordinates1) |->
                                 <<coordinates1[k], coordinates2[k]>>],
                   lines2 |-> [k \in 1..Len(coordinates1) |-> <<1, 1>>]]

\* _generate_row_col_lines with self.line_length = ll, self.line_gap = lg,
\* np.random.choice drawing start_jitter (not read when the range drawn from
\* is empty): the exception raised or [lines1, lines2].
GenerateRowColLines(ll, lg, iter, start_jitter) ==
    IF ll + lg <= 0
    THEN Raise("ValueError")                  \* np.random.choice of an empty array
    ELSE LET c1full == Slice(rows_cols, start_jitter, lg + ll)
             coordinates2 == Slice(rows_cols, start_jitter + ll, lg + ll)
             coordinates1 == IF Len(c1full) > Len(coordinates2)
                               THEN DropLast(c1full) ELSE c1full
         IN  IF Len(coordinates1) # Len(coordinates2)
             THEN Raise("ValueError")         \* np.vstack of unequal lengths
             ELSE [lines1 |-> [k \in 1..Len(coordinates1) |->
                                 <<coordinates1[k], coordinates2[k]>>],
                   lines2 |-> [k \in 1..Len(coordinates1) |-> <<iter, iter>>]]

\* np.random.choice(np.arange(n)) for n > 0, as the draw-th draw of the
\* sequence np.random follows: one of a bounded family, numbered by seed.
Choice(seed, draw, n) == (seed * 1009 + draw * 7919) % n

\* Mutant of Concatenate: each new array is put before lines1, not after it.
RECURSIVE ConcatenatePrepending(_, _, _)
ConcatenatePrepending(seqs, lo, hi) ==
    IF lo > hi THEN <<>>
    ELSE IF lo = hi THEN seqs[lo]
    ELSE LET mid == (lo + hi) \div 2
         IN  ConcatenatePrepending(seqs, mid + 1, hi)
               \o ConcatenatePrepending(seqs, lo, mid)

\* np.concatenate over seqs[lo..hi], in order.
RECURSIVE Concatenate(_, _, _)
Concatenate(seqs, lo, hi) ==
    IF lo > hi THEN <<>>
    ELSE IF lo = hi THEN seqs[lo]
    ELSE LET mid == (lo + hi) \div 2
         IN  Concatenate(seqs, lo, mid) \o Concatenate(seqs, mid + 1, hi)

\* The rows/columns the loop of _generate_all_lines visits: self.rows_cols[::density].
SelectedRowCols(density) ==
    Slice(rows_cols, DefaultStart(Len(rows_cols), density), density)

\* What the loop of _generate_all_lines returns, rows[k] being what
\* _generate_row_col_lines returned or raised in its k-th iteration: the first
\* exception, or the concatenation, with the draws made (drawn in each
\* iteration that got as far as np.random.choice returning: 1, or 0 when the
\* range drawn from is empty). An iteration whose row_col is not 0 reads
\* lines1; only the first can find it unbound.
LoopResult(sel, rows, drawn) ==
    LET failed == {k \in 1..Len(sel) : IsError(rows[k])}
        first == CHOOSE k \in failed : \A m \in failed : k <= m
        n == Len(sel)
    IN  IF sel[1] # 0
        THEN IF IsError(rows[1])
             THEN [error |-> rows[1].error, draws |-> drawn]
             ELSE [error |-> "UnboundLocalError", draws |-> drawn]
        ELSE IF failed # {}
        THEN [error |-> rows[first].error, draws |-> first * drawn]
        ELSE [lines1 |-> Concatenate([k \in 1..n |-> rows[k].lines1], 1, n),
              lines2 |-> Concatenate([k \in 1..n |-> rows[k].lines2], 1, n),
              origin |-> Concatenate([k \in 1..n |->
                            [j \in 1..Len(rows[k].lines1) |-> sel[k]]], 1, n),
              draws |-> n]

\* _generate_all_lines with the stored parameters ll, lg and density (that of
\* the orientation), np.random being at r: the exception raised or
\* [lines1, lines2], with the number of draws made. (\o <<>> makes the rows a
\* sequence value, computed once.)
GenerateAllLines(ll, lg, density, r) ==
    IF density = 0
    THEN [error |-> "ValueError", draws |-> 0]     \* slice step cannot be zero
    ELSE LET sel == SelectedRowCols(density)
             start_jitter(k) == IF ll + lg > 0
                                  THEN Choice(r.seed, r.draws + k - 1, ll + lg)
                                  ELSE 0
         IN  LoopResult(sel,
                        [k \in 1..Len(sel) |->
                           GenerateRowColLines(ll, lg, sel[k], start_jitter(k))]
                          \o <<>>,
                        IF ll + lg > 0 THEN 1 ELSE 0)

\* np.random after n more draws.
Advance(r, n) == [r EXCEPT !.draws = @ + n]

\* The record of a call: its arguments, how it ended, and which line sets it
\* assigned.
Call(op, ll, lg, rd, cd) ==
    [op |-> op, line_length |-> ll, line_gap |-> lg, row_density |-> rd,
     column_density |-> cd, result |-> "running",
     horizontal |-> FALSE, vertical |-> FALSE]

\* make_lines once the stored parameters are ll, lg, rd, cd (lines 63-64): the
\* horizontal set is assigned first, then the vertical one; an exception
\* leaves what was not assigned yet as it was. cl is the call being made.
Regenerate(ll, lg, rd, cd, cl) ==
    \E h \in {GenerateAllLines(ll, lg, rd, rng)} :
      \E v \in {IF IsError(h) THEN h
                ELSE GenerateAllLines(ll, lg, cd, Advance(rng, h.draws))} :
        /\ line_length' = ll
        /\ line_gap' = lg
        /\ row_density' = rd
        /\ column_density' = cd
        /\ IF IsError(h)
           THEN /\ UNCHANGED lineVars
                /\ rng' = Advance(rng, h.draws)
                /\ call' = [cl EXCEPT !.result = h.error]
           ELSE /\ horizontal_lines_xs' = h.lines1
                /\ horizontal_lines_ys' = h.lines2
                /\ horizontal_origin' = h.origin
                /\ rng' = Advance(rng, h.draws + v.draws)
                /\ IF IsError(v)
                   THEN /\ UNCHANGED <<vertical_lines_ys, vertical_lines_xs,
                                       vertical_origin>>
                        /\ call' = [cl EXCEPT !.result = v.error,
                                              !.horizontal = TRUE]
                   ELSE /\ vertical_lines_ys' = v.lines1
                        /\ vertical_lines_xs' = v.lines2
                        /\ vertical_origin' = v.origin
                        /\ call' = [cl EXCEPT !.result = "ok",
                                              !.horizontal = TRUE,
                                              !.vertical = TRUE]

\* Mutant of InitDensity: the density is inverted against 110.
InitDensityOffByTen(density) == 110 - density

\* Mutant of InitDensity: the density is stored as a step without inverting it.
InitDensityNotInverted(density) == density + 10

\* The density __init__ stores for the density it is given.
InitDensity(density) == 100 - density

\* LineFactory(line_length, line_gap, column_density, row_density): the
\* exception of make_lines leaves __init__, and no object is bound.
Construct(ll, lg, cd, rd) ==
    /\ pc = "start"
    /\ Regenerate(ll, lg, InitDensity(rd), InitDensity(cd),
                  Call("__init__", Some(ll), Some(lg), Some(rd), Some(cd)))
    /\ pc' = IF call'.result = "ok" THEN "ready" ELSE "failed"
    /\ UNCHANGED <<uiVars, ncalls, probe>>

\* An argument of make_lines overwrites the stored parameter when it is truthy.
Stored(arg, old) == IF Truthy(arg) THEN arg[1] ELSE old
StoredDensity(arg, old) == IF Truthy(arg) THEN 100 - arg[1] ELSE old

\* make_lines(line_length, line_gap, row_density, column_density) on the object.
MakeLinesBody(ll, lg, rd, cd, op) ==
    Regenerate(Stored(ll, line_length), Stored(lg, line_gap),
               StoredDensity(rd, row_density), StoredDensity(cd, column_density),
               Call(op, ll, lg, rd, cd))

\* The calls after the construction that a behaviour is followed for.
MaxCalls == 2

\* A caller's lines.make_lines(...).
MakeLines(ll, lg, rd, cd) ==
    /\ pc = "ready"
    /\ ncalls < MaxCalls
    /\ ncalls' = ncalls + 1
    /\ MakeLinesBody(ll, lg, rd, cd, "make_lines")
    /\ UNCHANGED <<pc, uiVars, probe>>

\* The arguments the script constructs its LineFactory with.
ScriptArgs ==
    [line_length |-> 250, line_gap |-> 50, column_density |-> 80, row_density |-> 80]

\* The script, lines 148-172: its LineFactory, the two data sources filled
\* from it, and the four sliders at their first values.
ScriptSetup ==
    /\ pc = "start"
    /\ Regenerate(ScriptArgs.line_length, ScriptArgs.line_gap,
                  InitDensity(ScriptArgs.row_density),
                  InitDensity(ScriptArgs.column_density),
                  Call("__init__", Some(ScriptArgs.line_length),
                       Some(ScriptArgs.line_gap), Some(ScriptArgs.row_density),
                       Some(ScriptArgs.column_density)))
    /\ pc' = IF call'.result = "ok" THEN "serving" ELSE "failed"
    /\ IF call'.result = "ok"
       THEN /\ horizontal_source' = [horizontal_lines_xs |-> horizontal_lines_xs',
                                     horizontal_lines_ys |-> horizontal_lines_ys']
            /\ vertical_source' = [vertical_lines_xs |-> vertical_lines_xs',
                                   vertical_lines_ys |-> vertical_lines_ys']
            /\ sliders' = [line_length |-> 250, line_gap |-> 50,
                           row_density |-> 80, column_density |-> 80]
       ELSE UNCHANGED uiVars
    /\ UNCHANGED <<ncalls, probe>>

\* update_data, the on_change callback of the four sliders, run when slider w
\* takes the value new: make_lines with the four slider values, then both
\* data sources are replaced; an exception of make_lines leaves them.
UpdateData(w, new) ==
    /\ pc = "serving"
    /\ ncalls < MaxCalls
    /\ ncalls' = ncalls + 1
    /\ sliders[w] # new
    /\ sliders' = [sliders EXCEPT ![w] = new]
    /\ MakeLinesBody(Some(sliders'.line_length), Some(sliders'.line_gap),
                     Some(sliders'.row_density), Some(sliders'.column_density),
                     "update_data")
    /\ IF call'.result = "ok"
       THEN /\ horizontal_source' = [horizontal_lines_xs |-> horizontal_lines_xs',
                                     horizontal_lines_ys |-> horizontal_lines_ys']
            /\ vertical_source' = [vertical_lines_xs |-> vertical_lines_xs',
                                   vertical_lines_ys |-> vertical_lines_ys']
       ELSE UNCHANGED <<horizontal_source, vertical_source>>
    /\ UNCHANGED <<pc, probe>>

\* The sequences np.random may follow.
MaxSeed == 1
Seeds == 0..MaxSeed

\* Before the construction no object exists: the attributes are placeholders.
NoCall == Call("none", None, None, None, None)
Init ==
    /\ pc = "start"
    /\ line_length = 0 /\ line_gap = 0
    /\ row_density = 0 /\ column_density = 0
    /\ horizontal_lines_xs = <<>> /\ horizontal_lines_ys = <<>>
    /\ vertical_lines_ys = <<>> /\ vertical_lines_xs = <<>>
    /\ horizontal_origin = <<>> /\ vertical_origin = <<>>
    /\ rng \in {[seed |-> s, draws |-> 0] : s \in Seeds}
    /\ sliders = <<>>
    /\ horizontal_source = <<>> /\ vertical_source = <<>>
    /\ call = NoCall
    /\ ncalls = 0
    /\ probe = <<>>

\* The arguments a caller passes: at most one of the four supplied.
AtMostOne(ll, lg, rd, cd) ==
    Cardinality({i \in 1..4 : <<ll, lg, rd, cd>>[i] # None}) <= 1

\* Any caller: lengths, gaps and densities inside and outside the accepted
\* ranges.
Lengths == {-500, 0, 1000}
Gaps == {0, 1500}
InitDensities == {-10, 50, 100}
Accepted(density) == 0 <= density /\ density <= 90
RowDensities == {-10, 0, 100}
ColumnDensities == {0, 100, 110}

Next ==
    \/ \E ll \in Lengths, lg \in Gaps, cd \in InitDensities, rd \in InitDensities :
           /\ Accepted(cd) /\ Accepted(rd)
           /\ Construct(ll, lg, cd, rd)
    \/ \E cd \in {0, 50, 90}, rd \in {0, 50, 90} : Construct(0, 0, cd, rd)
    \/ \E ll \in Lengths, lg \in Gaps, cd \in InitDensities, rd \in InitDensities :
           /\ ~(Accepted(cd) /\ Accepted(rd))
           /\ Construct(ll, lg, cd, rd)
    \/ \E ll \in Optional(Lengths), lg \in Optional(Gaps),
          rd \in Optional(RowDensities), cd \in Optional(ColumnDensities) :
           /\ AtMostOne(ll, lg, rd, cd)
           /\ MakeLines(ll, lg, rd, cd)

Spec == Init /\ [][Next]_vars

\* Callers and a user who keep to the accepted ranges: lengths and gaps >= 0,
\* not both 0 at the construction, densities in [0, 90]; the sliders move
\* inside their ranges.
ValidLengths == {0, 1000, 2000}
ValidGaps == {0, 1000}
ValidDensities == {0, 50}
SliderValues(w) ==
    IF w = "line_length" THEN {0, 1000}
    ELSE IF w = "line_gap" THEN {0, 1000}
    ELSE {0, 90}

NextValid ==
    \/ \E ll \in ValidLengths, lg \in ValidGaps,
          cd \in ValidDensities, rd \in ValidDensities :
           /\ ll + lg > 0
           /\ Construct(ll, lg, cd, rd)
    \/ ScriptSetup
    \/ \E ll \in Optional(ValidLengths), lg \in Optional(ValidGaps),
          rd \in Optional(ValidDensities), cd \in Optional(ValidDensities) :
           /\ AtMostOne(ll, lg, rd, cd)
           /\ MakeLines(ll, lg, rd, cd)
    \/ \E w \in {"line_length", "line_gap", "row_density", "column_density"} :
         \E new \in SliderValues(w) : UpdateData(w, new)

SpecValid == Init /\ [][NextValid]_vars

\* One application of _generate_row_col_lines: the k-th iteration of the loop
\* of _generate_all_lines(horizontal) on an object constructed with ll, lg,
\* cd, rd, np.random.choice drawing start_jitter.
RowColLines(ll, lg, cd, rd, horizontal, k, start_jitter) ==
    LET density == IF horizontal THEN InitDensity(rd) ELSE InitDensity(cd)
        sel == SelectedRowCols(density)
    IN  /\ probe = <<>>
        /\ probe' = [op |-> "_generate_row_col_lines",
                     args |-> [line_length |-> ll, line_gap |-> lg,
                               column_density |-> cd, row_density |-> rd],
                     line_length |-> ll, line_gap |-> lg,
                     row_density |-> InitDensity(rd),
                     column_density |-> InitDensity(cd),
                     horizontal |-> horizontal, iter |-> sel[k],
                     start_jitter |-> start_jitter,
                     result |-> GenerateRowColLines(ll, lg, sel[k], start_jitter)]
        /\ UNCHANGED <<pc, storedVars, lineVars, rng, uiVars, call, ncalls>>

\* The iterations looked at when the parameters vary: the first two and the last.
Iterations(n) == {1, 2, n}

\* The number of iterations of the loop for the density given to __init__.
LoopLen(density) == Len(SelectedRowCols(InitDensity(density)))

RowLengths == {0, 3, 250, 2000, 3000}
RowGaps == {0, 2, 50, 1000}

InitProbe ==
    /\ Init
    /\ rng.seed = 0

NextRow ==
    \/ /\ probe = <<>>
       /\ \E ll \in RowLengths, lg \in RowGaps, horizontal \in BOOLEAN :
            \E k \in Iterations(LoopLen(IF horizontal THEN 0 ELSE 90)),
               start_jitter \in 0..(ll + lg - 1) :
                 RowColLines(ll, lg, 90, 0, horizontal, k, start_jitter)
    \/ /\ probe = <<>>
       /\ \E horizontal \in BOOLEAN :
            \E k \in 1..LoopLen(IF horizontal THEN ScriptArgs.row_density
                                ELSE ScriptArgs.column_density),
               start_jitter \in 0..(ScriptArgs.line_length + ScriptArgs.line_gap - 1) :
                 RowColLines(ScriptArgs.line_length, ScriptArgs.line_gap,
                             ScriptArgs.column_density, ScriptArgs.row_density,
                             horizontal, k, start_jitter)

SpecRow == InitProbe /\ [][NextRow]_vars

\* The largest density the sliders give.
MaxDensity == 90

\* The stored density and the rows/columns selected for two densities given
\* to __init__.
DensityPair(d1, d2) ==
    /\ probe = <<>>
    /\ probe' = [op |-> "density", density1 |-> d1, density2 |-> d2,
                 stored1 |-> InitDensity(d1), stored2 |-> InitDensity(d2),
                 selected1 |-> SelectedRowCols(InitDensity(d1)),
                 selected2 |-> SelectedRowCols(InitDensity(d2))]
    /\ UNCHANGED <<pc, storedVars, lineVars, rng, uiVars, call, ncalls>>

NextDensity ==
    /\ probe = <<>>
    /\ \E d1 \in 0..MaxDensity, d2 \in 0..MaxDensity : DensityPair(d1, d2)

SpecDensity == InitProbe /\ [][NextDensity]_vars

(***************************************************************************)
(* The claims.                                                             *)
(***************************************************************************)

\* A make_lines call (a caller's, or the one update_data makes) has just ended.
Regenerated == ncalls' = ncalls + 1
Failed(c) == c.result \notin {"ok", "running"}
Built == pc \in {"ready", "serving"}
InRange(density) == density # None /\ 0 <= density[1] /\ density[1] <= 90
OutOfRange(density) == density # None /\ (density[1] < 0 \/ density[1] > 90)

\* C1: a make_lines call that ends in an error leaves the four stored
\* parameters and both line sets as they were before the call.
C1_ErrorLeavesStateUnchanged ==
    [][(Regenerated /\ Failed(call'))
         => (/\ line_length' = line_length
             /\ line_gap' = line_gap
             /\ row_density' = row_density
             /\ column_density' = column_density
             /\ horizontal_lines_xs' = horizontal_lines_xs
             /\ horizontal_lines_ys' = horizontal_lines_ys
             /\ vertical_lines_ys' = vertical_lines_ys
             /\ vertical_lines_xs' = vertical_lines_xs)]_vars

\* C2: a construction or make_lines call given a row or column density outside
\* [0, 90] ends in an error and assigns no line set.
C2_DensityOutOfRangeIsAnError ==
    (call.op \in {"__init__", "make_lines"}
       /\ (OutOfRange(call.row_density) \/ OutOfRange(call.column_density)))
      => (Failed(call) /\ ~call.horizontal /\ ~call.vertical)

\* C3: a construction with line_length = 0 and line_gap = 0 and densities in
\* [0, 90] ends with the error of the empty stride, builds no object and
\* assigns no line set.
C3_ZeroStrideConstructionFails ==
    (call.op = "__init__" /\ call.line_length = Some(0) /\ call.line_gap = Some(0)
       /\ InRange(call.row_density) /\ InRange(call.column_density))
      => (/\ call.result = "ValueError"
          /\ pc = "failed"
          /\ ~call.horizontal /\ ~call.vertical
          /\ horizontal_lines_xs = <<>> /\ horizontal_lines_ys = <<>>
          /\ vertical_lines_ys = <<>> /\ vertical_lines_xs = <<>>)

C3_Witness ==
    /\ call.op = "__init__" /\ call.line_length = Some(0) /\ call.line_gap = Some(0)
    /\ call.row_density = Some(90) /\ call.column_density = Some(0)
    /\ pc = "failed"

\* C4: after every make_lines call, an argument that was omitted or 0 leaves
\* its stored parameter as it was, and a non-zero argument v leaves v stored
\* for line_length and line_gap and 100 - v for the two densities.
C4_FalsyKeepsTruthyOverwrites ==
    [][Regenerated =>
         (/\ line_length' = IF call'.line_length \in {None, Some(0)}
                              THEN line_length ELSE call'.line_length[1]
          /\ line_gap' = IF call'.line_gap \in {None, Some(0)}
                           THEN line_gap ELSE call'.line_gap[1]
          /\ row_density' = IF call'.row_density \in {None, Some(0)}
                              THEN row_density ELSE 100 - call'.row_density[1]
          /\ column_density' = IF call'.column_density \in {None, Some(0)}
                                 THEN column_density
                                 ELSE 100 - call'.column_density[1])]_vars

C4_Witness ==
    /\ call.op = "make_lines" /\ call.line_gap = Some(0) /\ call.result = "ok"
    /\ line_gap = 1500

\* The number of k >= 0 with j + k*step + ll <= 3N - 1.
FullSegments(ll, step, j) ==
    IF j + ll > 3 * number_of_rows_cols - 1 THEN 0
    ELSE ((3 * number_of_rows_cols - 1 - j - ll) \div step) + 1

RowProbed == probe # <<>> /\ probe.op = "_generate_row_col_lines"

\* C5: for line_length >= 0, line_gap >= 0, step = line_length + line_gap > 0
\* and every jitter j in [0, step), the segments of a row/column are exactly
\* (j + k*step, j + k*step + line_length) for every k >= 0 with
\* j + k*step + line_length <= 3N - 1, in increasing k; before the drop the
\* starts are at most one more than the ends.
C5_SegmentsAreTheFullLengthOnes ==
    RowProbed =>
      LET ll == probe.line_length
          step == probe.line_length + probe.line_gap
          j == probe.start_jitter
          n == FullSegments(ll, step, j)
          starts == SliceLen(Len(rows_cols), j, step)
          ends == SliceLen(Len(rows_cols), j + ll, step)
      IN  /\ ~IsError(probe.result)
          /\ Len(probe.result.lines1) = n
          /\ \A i \in 1..n :
               /\ probe.result.lines1[i]
                    = <<j + (i - 1) * step, j + (i - 1) * step + ll>>
               /\ probe.result.lines1[i][1] >= 0
               /\ probe.result.lines1[i][2] < 3 * number_of_rows_cols
          /\ starts - ends \in {0, 1}
          /\ n = ends

\* A row whose last start had no room for a full segment and was dropped.
C5_Witness ==
    /\ RowProbed
    /\ probe.line_length = 250 /\ probe.line_gap = 50 /\ probe.start_jitter = 299
    /\ Len(probe.result.lines1) = 9
    /\ SliceLen(Len(rows_cols), 299, 300) = 10

\* Entry i of a line set (along, orthogonal), appended for the row/column
\* origin[i], lies on that row/column, which is a multiple of density in [0, 3N).
OnItsRowCol(along, orthogonal, origin, density) ==
    /\ Len(along) = Len(orthogonal)
    /\ Len(along) = Len(origin)
    /\ \A i \in 1..Len(orthogonal) :
         /\ orthogonal[i] = <<origin[i], origin[i]>>
         /\ origin[i] % density = 0
         /\ origin[i] >= 0 /\ origin[i] < 3 * number_of_rows_cols

\* C6: in both line sets the along-axis and the orthogonal sequences have the
\* same length, and both orthogonal coordinates of entry i are the index of
\* the row/column that produced it, a multiple of the stored density of the
\* orientation in [0, 3N).
C6_OrthogonalIsTheRowCol ==
    Built =>
      /\ OnItsRowCol(horizontal_lines_xs, horizontal_lines_ys, horizontal_origin,
                     row_density)
      /\ OnItsRowCol(vertical_lines_ys, vertical_lines_xs, vertical_origin,
                     column_density)

C6_Witness ==
    /\ pc = "serving" /\ call.op = "update_data"
    /\ Len(horizontal_lines_ys) > 300 /\ Len(vertical_lines_xs) > 300
    /\ horizontal_lines_ys[Len(horizontal_lines_ys)] = <<2990, 2990>>

\* The row/column indices with a segment in the orthogonal sequence.
Covered(orthogonal) == {orthogonal[i][1] : i \in 1..Len(orthogonal)}
Selected(density) == {i \in 0..(3 * number_of_rows_cols - 1) : i % density = 0}
Ordered(orthogonal) ==
    \A i \in 1..(Len(orthogonal) - 1) : orthogonal[i][1] <= orthogonal[i + 1][1]

\* C7 as stated: for all valid parameters both line sets have a segment on
\* every selected row/column, in non-decreasing order of the index.
C7_EverySelectedRowColCovered ==
    Built =>
      /\ Selected(row_density) \subseteq Covered(horizontal_lines_ys)
      /\ Selected(column_density) \subseteq Covered(vertical_lines_xs)
      /\ Ordered(horizontal_lines_ys) /\ Ordered(vertical_lines_xs)

\* C7 as amended: the segments are in non-decreasing order of the index, and
\* when 2*line_length + line_gap <= 3N every selected row/column has a
\* segment.
C7_CoveredWhenAFullSegmentAlwaysFits ==
    Built =>
      /\ Ordered(horizontal_lines_ys) /\ Ordered(vertical_lines_xs)
      /\ (2 * line_length + line_gap <= 3 * number_of_rows_cols
            => /\ Selected(row_density) \subseteq Covered(horizontal_lines_ys)
               /\ Selected(column_density) \subseteq Covered(vertical_lines_xs))

C7_Witness ==
    /\ pc = "ready" /\ line_length = 1000 /\ line_gap = 1000
    /\ row_density = 50 /\ column_density = 100
    /\ Cardinality(Covered(horizontal_lines_ys)) = 60
    /\ Cardinality(Covered(vertical_lines_xs)) = 30

\* C8: the script's construction (250, 50, 80, 80) stores 20 for both
\* densities and selects the rows/columns 0, 20, ..., 2980 (150 of them), and
\* for every jitter each of them gets at most 10 segments of length 250 whose
\* starts are 300 apart.
C8_ScriptConstruction ==
    (RowProbed /\ probe.args = [line_length |-> 250, line_gap |-> 50,
                                column_density |-> 80, row_density |-> 80])
      => /\ probe.row_density = 20 /\ probe.column_density = 20
         /\ SelectedRowCols(probe.row_density) = [k \in 1..150 |-> 20 * (k - 1)]
         /\ SelectedRowCols(probe.column_density) = [k \in 1..150 |-> 20 * (k - 1)]
         /\ probe.iter \in {20 * (k - 1) : k \in 1..150}
         /\ ~IsError(probe.result)
         /\ Len(probe.result.lines1) <= 10
         /\ \A i \in 1..Len(probe.result.lines1) :
              /\ probe.result.lines1[i][2] - probe.result.lines1[i][1] = 250
              /\ i > 1 => probe.result.lines1[i][1]
                            - probe.result.lines1[i - 1][1] = 300

C8_Witness ==
    /\ RowProbed /\ probe.args = ScriptArgs
    /\ ~probe.horizontal /\ probe.iter = 2980 /\ probe.start_jitter = 49
    /\ Len(probe.result.lines1) = 10

\* C9: for densities d1 < d2 in [0, 90] the stored density of d2 is smaller
\* than that of d1, and d2 selects at least as many rows/columns as d1.
C9_DensityMonotone ==
    (probe # <<>> /\ probe.op = "density" /\ probe.density1 < probe.density2)
      => /\ probe.stored2 < probe.stored1
         /\ Len(probe.selected2) >= Len(probe.selected1)

C9_Witness ==
    /\ probe # <<>> /\ probe.op = "density"
    /\ probe.density1 = 0 /\ probe.density2 = 90
    /\ Len(probe.selected1) = 30 /\ Len(probe.selected2) = 300

\* C10: with every argument in the accepted ranges, in every state the stored
\* line_length + line_gap > 0 and both stored densities are in [10, 100]; no
\* construction, make_lines or update_data ends in an error, and each assigns
\* both line sets.
C10_ValidCallsNeverFail ==
    /\ pc # "failed"
    /\ Built =>
         /\ line_length + line_gap > 0
         /\ row_density \in 10..100 /\ column_density \in 10..100
         /\ call.result = "ok" /\ call.horizontal /\ call.vertical

C10_Witness ==
    /\ pc = "serving" /\ call.op = "update_data" /\ ncalls = 2
    /\ sliders.line_length = 0 /\ line_length = 250
    /\ column_density = 10

====
